---- MODULE Spec2Model ----
(***************************************************************************)
(* Model of src/processamento.py: the batch pipeline processar_dados and   *)
(* the validators it calls.  Text values are sequences of one-character    *)
(* strings, so that digit extraction, padding, splitting and substring     *)
(* tests are computed rather than assumed.                                 *)
(***************************************************************************)
EXTENDS Integers, Sequences, FiniteSets, TLC

VARIABLES
    pc,                 \* position inside processar_dados
    arquivo_dados,      \* rows of dados.xlsx as they sit on disk (raw)
    df,                 \* rows read from dados.xlsx
    df_limpo,           \* rows after padronizar_e_limpar_dados
    pos,                \* number of rows of df_limpo the loop has consumed
    motivos_invalidos,  \* reason list of the row validated last
    resposta_cep,       \* HTTP outcome of the last postal-code lookup
    data_cep,           \* what validar_cep returned for it
    clientes_validos,
    clientes_invalidos,
    df_clientes_validos,\* the DataFrame built from clientes_validos
    arquivo_sistema,    \* cpf column found in sistema.xlsx when it was opened
    df_sistema,         \* cpf column of sistema.xlsx once read
    invalidos_xlsx,     \* <<>> until written, then <<rows>>
    json_saida,         \* <<>> until written, then <<entries>>
    relatorio,          \* <<>> until printed, then <<counts>>
    excecao,            \* "" or the exception that left processar_dados
    cpf_entrada,        \* argument of the stand-alone validar_cpf run
    cpf_saida           \* <<>> until validar_cpf returned, then <<result>>

vars == <<pc, arquivo_dados, df, df_limpo, pos, motivos_invalidos,
          resposta_cep, data_cep, clientes_validos, clientes_invalidos,
          df_clientes_validos, arquivo_sistema, df_sistema, invalidos_xlsx,
          json_saida, relatorio, excecao, cpf_entrada, cpf_saida>>

(***************************************************************************)
(* Bounds of the model.                                                    *)
(***************************************************************************)
MaxRegistros == 2   \* longest batch explored by Spec
CpfVarPos == 1      \* leading CPF positions that vary freely in SpecCpf

(***************************************************************************)
(* Text helpers: str.upper, str.strip, re.sub(r'\D', '', s), str.zfill,    *)
(* str.split, the `in` substring test.                                     *)
(***************************************************************************)
Digitos == {"0", "1", "2", "3", "4", "5", "6", "7", "8", "9"}

DigitosSeq == <<"0", "1", "2", "3", "4", "5", "6", "7", "8", "9">>

DigitoVal(c) ==
    CASE c = "0" -> 0 [] c = "1" -> 1 [] c = "2" -> 2 [] c = "3" -> 3
      [] c = "4" -> 4 [] c = "5" -> 5 [] c = "6" -> 6 [] c = "7" -> 7
      [] c = "8" -> 8 [] c = "9" -> 9

EhDigito(c) == c \in Digitos

\* [A-Za-z0-9_] of the alphabet the model uses
EhPalavra(c) == c \in Digitos \cup {"a", "b", "c", "e", "p", "s", "x",
                                    "A", "B", "C", "E", "P", "S", "X", "_"}

UpperChar(c) ==
    CASE c = "a" -> "A" [] c = "b" -> "B" [] c = "c" -> "C" [] c = "e" -> "E"
      [] c = "p" -> "P" [] c = "s" -> "S" [] c = "x" -> "X"
      [] OTHER -> c

LowerChar(c) ==
    CASE c = "A" -> "a" [] c = "B" -> "b" [] c = "C" -> "c" [] c = "E" -> "e"
      [] c = "P" -> "p" [] c = "S" -> "s" [] c = "X" -> "x"
      [] OTHER -> c

Upper(s) == [k \in 1..Len(s) |-> UpperChar(s[k])]

Lower(s) == [k \in 1..Len(s) |-> LowerChar(s[k])]

RECURSIVE LStrip(_)
LStrip(s) == IF s # <<>> /\ Head(s) = " " THEN LStrip(Tail(s)) ELSE s

RECURSIVE RStrip(_)
RStrip(s) ==
    IF s # <<>> /\ s[Len(s)] = " " THEN RStrip(SubSeq(s, 1, Len(s) - 1)) ELSE s

Strip(s) == RStrip(LStrip(s))

SoDigitos(s) == SelectSeq(s, EhDigito)

RECURSIVE ZFill(_, _)
ZFill(s, n) == IF Len(s) >= n THEN s ELSE ZFill(<<"0">> \o s, n)

\* number of whitespace-separated tokens, len(s.split())
NumPalavras(s) ==
    Cardinality({k \in 1..Len(s) : s[k] # " " /\ (k = 1 \/ s[k - 1] = " ")})

\* a in b, for strings
Contem(b, a) ==
    \E k \in 0..(Len(b) - Len(a)) : SubSeq(b, k + 1, k + Len(a)) = a

(***************************************************************************)
(* validar_cpf                                                             *)
(***************************************************************************)
RECURSIVE SomaCpf(_, _, _)
\* sum(int(cpf[num]) * ((i+1) - num) for num in range(0, i)), num counted down
SomaCpf(cpf, i, num) ==
    IF num < 0 THEN 0
    ELSE DigitoVal(cpf[num + 1]) * ((i + 1) - num) + SomaCpf(cpf, i, num - 1)

DigitoCpf(cpf, i) == ((SomaCpf(cpf, i, i - 1) * 10) % 11) % 10

TodosIguais(cpf) == \A k \in 1..Len(cpf) : cpf[k] = cpf[1]

validar_cpf_sem_repetidos(x) ==
    LET cpf == ZFill(SoDigitos(x), 11)
    IN  /\ Len(cpf) = 11
        /\ \A i \in 9..10 : DigitoCpf(cpf, i) = DigitoVal(cpf[i + 1])

validar_cpf(x) ==
    LET cpf == ZFill(SoDigitos(x), 11)
    IN  /\ Len(cpf) = 11
        /\ ~TodosIguais(cpf)
        /\ \A i \in 9..10 : DigitoCpf(cpf, i) = DigitoVal(cpf[i + 1])

(***************************************************************************)
(* validar_email: re.match(r'^[\w\.-]+@[\w\.-]+\.\w+$', email)             *)
(***************************************************************************)
EhClasseEmail(c) == EhPalavra(c) \/ c = "." \/ c = "-"

\* s[a..b] is a non-empty run of [\w\.-]
TrechoClasse(s, a, b) == a <= b /\ \A k \in a..b : EhClasseEmail(s[k])

\* s[a..b] is a non-empty run of \w
TrechoPalavra(s, a, b) == a <= b /\ \A k \in a..b : EhPalavra(s[k])

validar_email(email) ==
    \E arroba \in 1..Len(email), ponto \in 1..Len(email) :
        /\ email[arroba] = "@"
        /\ email[ponto] = "."
        /\ TrechoClasse(email, 1, arroba - 1)
        /\ TrechoClasse(email, arroba + 1, ponto - 1)
        /\ TrechoPalavra(email, ponto + 1, Len(email))

(***************************************************************************)
(* validar_telefone: re.match(r'^\d{10,11}$', str(telefone))               *)
(***************************************************************************)
validar_telefone_so_digitos(telefone) ==
    \A k \in 1..Len(telefone) : EhDigito(telefone[k])

validar_telefone(telefone) ==
    /\ Len(telefone) \in 10..11
    /\ \A k \in 1..Len(telefone) : EhDigito(telefone[k])

(***************************************************************************)
(* validar_data_nascimento.  A normalised date of birth is either the text *)
(* 'YYYY-MM-DD' that strftime produced, carried here by the number of days *)
(* between it and datetime.now(), or the float NaN that strftime yields    *)
(* for NaT.  strptime raises ValueError on malformed text (caught) and     *)
(* TypeError on a non-string argument (not caught).                        *)
(***************************************************************************)
NaN == [tipo |-> "nan", formato_ok |-> FALSE, dias |-> 0]

DataTexto(d) == [tipo |-> "str", formato_ok |-> TRUE, dias |-> d]

validar_data_nascimento(data_nascimento) ==
    IF data_nascimento.tipo # "str" THEN "TypeError"
    ELSE IF ~data_nascimento.formato_ok THEN "False"
    ELSE IF data_nascimento.dias \div 365 >= 18 THEN "True" ELSE "False"

(***************************************************************************)
(* validar_nome_completo                                                   *)
(***************************************************************************)
validar_nome_completo(nome) == NumPalavras(nome) >= 2

(***************************************************************************)
(* validar_cep.  A lookup answer is a transport failure, or a status with  *)
(* a JSON body: the 'erro' flag and the address keys the body carries.     *)
(***************************************************************************)
Chaves == {"logradouro", "bairro", "localidade", "uf"}

SemDados == [presentes |-> {}, valor |-> [k \in Chaves |-> <<>>]]

validar_cep_ignora_erro(resposta) ==
    IF ~resposta.transporte_ok THEN <<FALSE, SemDados>>
    ELSE IF resposta.status = 200 THEN <<TRUE, resposta.corpo>>
    ELSE <<FALSE, SemDados>>

validar_cep(resposta) ==
    IF ~resposta.transporte_ok THEN <<FALSE, SemDados>>
    ELSE IF resposta.status = 200
         THEN IF resposta.erro THEN <<FALSE, SemDados>>
              ELSE <<TRUE, resposta.corpo>>
         ELSE <<FALSE, SemDados>>

(***************************************************************************)
(* validar_endereco                                                        *)
(***************************************************************************)
\* data.get(chave, '')
Get(data, chave) == IF chave \in data.presentes THEN data.valor[chave] ELSE <<>>

validar_endereco_igualdade(data, endereco, bairro, cidade, estado) ==
    /\ Upper(Get(data, "logradouro")) = endereco
    /\ Upper(Get(data, "bairro")) = bairro
    /\ Upper(Get(data, "localidade")) = cidade
    /\ Upper(Get(data, "uf")) = estado

validar_endereco(data, endereco, bairro, cidade, estado) ==
    /\ Contem(endereco, Upper(Get(data, "logradouro")))
    /\ Upper(Get(data, "bairro")) = bairro
    /\ Upper(Get(data, "localidade")) = cidade
    /\ Upper(Get(data, "uf")) = estado

(***************************************************************************)
(* padronizar_e_limpar_dados                                               *)
(***************************************************************************)
\* pd.to_datetime(errors='coerce') then .dt.strftime('%Y-%m-%d')
PadronizarData(bruta) == IF bruta.legivel THEN DataTexto(bruta.dias) ELSE NaN

PadronizarLinha(r) ==
    [NOME       |-> Strip(Upper(r.NOME)),
     Endereco   |-> Strip(Upper(r.Endereco)),
     Bairro     |-> Strip(Upper(r.Bairro)),
     Cidade     |-> Strip(Upper(r.Cidade)),
     Estado     |-> Strip(Upper(r.Estado)),
     CPF        |-> Strip(ZFill(SoDigitos(r.CPF), 11)),
     Nascimento |-> PadronizarData(r.Nascimento),
     Telefone   |-> Strip(SoDigitos(r.Telefone)),
     Faculdade  |-> Strip(Lower(r.Faculdade)),
     Curso      |-> Strip(Upper(r.Curso)),
     Email      |-> r.Email,
     CEP        |-> Strip(ZFill(SoDigitos(r.CEP), 8)),
     Numero     |-> r.Numero,
     RA         |-> r.RA]

\* df.drop_duplicates(): a row is kept when no earlier row equals it; the
\* index label of a kept row is its position in the file, counted from 0
RECURSIVE Indexar(_, _)
Indexar(linhas, k) ==
    IF k > Len(linhas) THEN <<>>
    ELSE <<[indice |-> k - 1, row |-> linhas[k]]>> \o Indexar(linhas, k + 1)

SemDuplicatas(marcadas) ==
    SelectSeq(marcadas,
              LAMBDA m : \A j \in 1..Len(marcadas) :
                  marcadas[j].indice < m.indice => marcadas[j].row # m.row)

padronizar_e_limpar_dados(linhas) ==
    SemDuplicatas(Indexar([k \in 1..Len(linhas) |-> PadronizarLinha(linhas[k])], 1))

(***************************************************************************)
(* Inputs: rows of dados.xlsx, contents of sistema.xlsx, lookup answers.   *)
(***************************************************************************)
NomeCompleto == <<"a", "b", " ", "c">>
NomeUnico == <<" ", "a", "b", "c", " ">>
NomeCompletoMaiusculo == <<"A", "B", " ", "C", " ">>

CpfFormatado == <<"1", "1", "1", ".", "4", "4", "4", ".", "7", "7", "7", "-", "3", "5">>
CpfNumerico == <<"1", "2", "3", "4", "5", "6", "7", "8", "9", "0">>
CpfRepetido == <<"1", "1", "1", "1", "1", "1", "1", "1", "1", "1", "1">>

NascimentoAdulto == [legivel |-> TRUE, dias |-> 18 * 365]
NascimentoMenor == [legivel |-> TRUE, dias |-> 18 * 365 - 1]
NascimentoIlegivel == [legivel |-> FALSE, dias |-> 0]

EmailBom == <<"a", "@", "b", ".", "c">>
EmailSemArroba == <<"a", "b", ".", "c">>
EmailSemPonto == <<"a", "@", "b", "c">>

TelefoneCelular == <<"(", "1", "1", ")", " ", "9", "8", "8", "8", "8", "-", "7", "7", "7", "7">>
TelefoneFixo == <<"1", "1", "3", "3", "3", "3", "4", "4", "4", "4">>
TelefoneCurto == <<"1", "2", "3", "4", "5">>
TelefoneLongo == <<"1", "1", "9", "8", "8", "8", "8", "7", "7", "7", "7", "1">>

CepBruto == <<"0", "1", "0", "0", "1", "-", "0", "0", "0">>

EnderecoBom == <<"p", "c", " ", "s", "e", " ", "1">>
Outro == <<"x">>
BairroBom == <<"s", "e">>
Branco == <<" ">>
CidadeBoa == <<"s", "a", "p", "e">>
EstadoBom == <<"s", "p">>
FaculdadeBruta == <<"A", "b", " ">>
CursoBruto == <<"c", "s">>

\* the canonical address the lookup service holds for CepBruto
Canonico ==
    [logradouro |-> <<"P", "c", " ", "s", "e">>, bairro |-> <<"S", "e">>,
     localidade |-> <<"S", "a", "p", "e">>, uf |-> <<"S", "P">>]

LinhaBoa ==
    [NOME |-> NomeCompleto, Endereco |-> EnderecoBom, Bairro |-> BairroBom,
     Cidade |-> CidadeBoa, Estado |-> EstadoBom, CPF |-> CpfFormatado,
     Nascimento |-> NascimentoAdulto, Telefone |-> TelefoneCelular,
     Faculdade |-> FaculdadeBruta, Email |-> EmailBom, CEP |-> CepBruto,
     Curso |-> CursoBruto, Numero |-> 10, RA |-> 7]

\* rows that vary the fields of rules 1 to 5
LinhasRegras ==
    {[LinhaBoa EXCEPT !.CPF = c, !.NOME = n, !.Nascimento = d, !.Email = e,
                      !.Telefone = t] :
        c \in {CpfFormatado, CpfNumerico, CpfRepetido},
        n \in {NomeCompleto, NomeUnico},
        d \in {NascimentoAdulto, NascimentoMenor, NascimentoIlegivel},
        e \in {EmailBom, EmailSemArroba, EmailSemPonto},
        t \in {TelefoneCelular, TelefoneFixo, TelefoneCurto, TelefoneLongo}}

\* rows that vary the self-reported address
LinhasEndereco ==
    {[LinhaBoa EXCEPT !.Endereco = e, !.Bairro = b, !.Cidade = c, !.Estado = u] :
        e \in {EnderecoBom, Outro}, b \in {BairroBom, Outro, Branco},
        c \in {CidadeBoa, Outro}, u \in {EstadoBom, Outro}}

\* rows from which longer batches are built
LinhasLote ==
    {LinhaBoa,
     [LinhaBoa EXCEPT !.NOME = NomeCompletoMaiusculo],
     [LinhaBoa EXCEPT !.CPF = CpfNumerico, !.Telefone = TelefoneFixo],
     [LinhaBoa EXCEPT !.Telefone = TelefoneCurto, !.NOME = NomeUnico],
     [LinhaBoa EXCEPT !.Nascimento = NascimentoIlegivel]}

Lotes ==
    UNION {[1..n -> LinhasLote] : n \in 0..MaxRegistros}
        \cup {<<r>> : r \in LinhasRegras \cup LinhasEndereco}

\* cpf column of sistema.xlsx, as read
Sistemas == {<<>>, <<CpfNumerico>>, <<CpfRepetido, CpfFormatado>>}

Corpos ==
    {[presentes |-> P, valor |-> [k \in Chaves |-> Canonico[k]]] : P \in SUBSET Chaves}

Respostas ==
    {[transporte_ok |-> FALSE, status |-> 0, erro |-> FALSE, corpo |-> SemDados],
     [transporte_ok |-> TRUE, status |-> 400, erro |-> FALSE, corpo |-> SemDados],
     [transporte_ok |-> TRUE, status |-> 200, erro |-> TRUE, corpo |-> SemDados]}
        \cup {[transporte_ok |-> TRUE, status |-> 200, erro |-> FALSE, corpo |-> c] :
                c \in Corpos}

SemResposta == [transporte_ok |-> FALSE, status |-> 0, erro |-> FALSE, corpo |-> SemDados]

(***************************************************************************)
(* processar_dados                                                         *)
(***************************************************************************)
\* reason texts (accents dropped)
MotivoCpf == "CPF invalido"
MotivoNome == "Nome incompleto"
MotivoData == "Data de nascimento invalida ou idade menor que 18"
MotivoEmail == "Email invalido"
MotivoTelefone == "Telefone invalido"
MotivoCep == "CEP invalido"
MotivoEndereco == "Endereco nao corresponde ao CEP"

\* ", ".join(motivos)
RECURSIVE Join(_)
Join(motivos) ==
    IF Len(motivos) <= 1 THEN motivos
    ELSE <<Head(motivos), ", ">> \o Join(Tail(motivos))

Se(falhou, motivo) == IF falhou THEN <<motivo>> ELSE <<>>

\* reasons appended before the date rule runs
MotivosAntesDaData(row) ==
    Se(~validar_cpf(row.CPF), MotivoCpf)
        \o Se(~validar_nome_completo(row.NOME), MotivoNome)

\* the if / elif on the lookup result
MotivosCep(row, retorno) ==
    IF ~retorno[1] THEN <<MotivoCep>>
    ELSE Se(~validar_endereco(retorno[2], row.Endereco, row.Bairro,
                              row.Cidade, row.Estado), MotivoEndereco)

\* reasons of a row whose date rule returned; previos holds the earlier ones
MotivosDepoisDaData(previos, row, retorno) ==
    previos
        \o Se(~validar_email(row.Email), MotivoEmail)
        \o Se(~validar_telefone(row.Telefone), MotivoTelefone)
        \o MotivosCep(row, retorno)

Destino_mais_de_um(motivos) == IF Len(motivos) > 1 THEN "invalido" ELSE "valido"

\* if motivos_invalidos: ... else: ...
Destino(motivos) == IF motivos # <<>> THEN "invalido" ELSE "valido"

Init ==
    /\ pc = "ler_dados"
    /\ arquivo_dados \in Lotes
    /\ df = <<>>
    /\ df_limpo = <<>>
    /\ pos = 0
    /\ motivos_invalidos = <<>>
    /\ resposta_cep = SemResposta
    /\ data_cep = <<FALSE, SemDados>>
    /\ clientes_validos = <<>>
    /\ clientes_invalidos = <<>>
    /\ df_clientes_validos = <<>>
    /\ arquivo_sistema = <<>>
    /\ df_sistema = <<>>
    /\ invalidos_xlsx = <<>>
    /\ json_saida = <<>>
    /\ relatorio = <<>>
    /\ excecao = ""
    /\ cpf_entrada = <<>>
    /\ cpf_saida = <<>>

\* pd.read_excel('dados.xlsx'): the file is there, or FileNotFoundError
LerDados ==
    /\ pc = "ler_dados"
    /\ \/ /\ df' = arquivo_dados
          /\ pc' = "padronizar"
       \/ /\ df' = df
          /\ pc' = "abortado_dados"
    /\ UNCHANGED <<arquivo_dados, arquivo_sistema, df_limpo, pos, motivos_invalidos, resposta_cep,
                   data_cep, clientes_validos, clientes_invalidos,
                   df_clientes_validos, df_sistema, invalidos_xlsx, json_saida,
                   relatorio, excecao, cpf_entrada, cpf_saida>>

Padronizar ==
    /\ pc = "padronizar"
    /\ df_limpo' = padronizar_e_limpar_dados(df)
    /\ clientes_validos' = <<>>
    /\ clientes_invalidos' = <<>>
    /\ pc' = "validar"
    /\ UNCHANGED <<arquivo_dados, arquivo_sistema, df, pos, motivos_invalidos, resposta_cep,
                   data_cep, df_clientes_validos, df_sistema, invalidos_xlsx,
                   json_saida, relatorio, excecao, cpf_entrada, cpf_saida>>

\* one iteration of the validation loop
ValidarRegistro ==
    /\ pc = "validar"
    /\ pos < Len(df_limpo)
    /\ LET m == df_limpo[pos + 1]
           antes == MotivosAntesDaData(m.row)
           data_ok == validar_data_nascimento(m.row.Nascimento)
       IN  IF data_ok = "TypeError"
           THEN /\ motivos_invalidos' = antes
                /\ excecao' = "TypeError"
                /\ pc' = "excecao"
                /\ UNCHANGED <<pos, resposta_cep, data_cep, clientes_validos,
                               clientes_invalidos>>
           ELSE \E resposta \in Respostas :
                LET retorno == validar_cep(resposta)
                    motivos == MotivosDepoisDaData(
                                   antes \o Se(data_ok = "False", MotivoData),
                                   m.row, retorno)
                IN  /\ motivos_invalidos' = motivos
                    /\ resposta_cep' = resposta
                    /\ data_cep' = retorno
                    /\ IF Destino(motivos) = "invalido"
                       THEN /\ clientes_invalidos' =
                                   Append(clientes_invalidos,
                                          [indice |-> m.indice, row |-> m.row,
                                           Motivo |-> Join(motivos)])
                            /\ UNCHANGED clientes_validos
                       ELSE /\ clientes_validos' = Append(clientes_validos, m)
                            /\ UNCHANGED clientes_invalidos
                    /\ pos' = pos + 1
                    /\ UNCHANGED <<pc, excecao>>
    /\ UNCHANGED <<arquivo_dados, arquivo_sistema, df, df_limpo, df_clientes_validos, df_sistema,
                   invalidos_xlsx, json_saida, relatorio, cpf_entrada, cpf_saida>>

GravarInvalidos_adiado ==
    /\ pc = "validar"
    /\ pos = Len(df_limpo)
    /\ df_clientes_validos' =
           [k \in 1..Len(clientes_validos) |->
               [indice |-> clientes_validos[k].indice,
                row |-> clientes_validos[k].row, TIPO |-> ""]]
    /\ pc' = "ler_sistema"
    /\ UNCHANGED <<arquivo_dados, arquivo_sistema, df, df_limpo, pos,
                   motivos_invalidos, resposta_cep, data_cep, clientes_validos,
                   clientes_invalidos, df_sistema, invalidos_xlsx, json_saida,
                   relatorio, excecao, cpf_entrada, cpf_saida>>

\* the two DataFrames are built and clientes_invalidos.xlsx is written
GravarInvalidos ==
    /\ pc = "validar"
    /\ pos = Len(df_limpo)
    /\ df_clientes_validos' =
           [k \in 1..Len(clientes_validos) |->
               [indice |-> clientes_validos[k].indice,
                row |-> clientes_validos[k].row, TIPO |-> ""]]
    /\ invalidos_xlsx' = <<clientes_invalidos>>
    /\ pc' = "ler_sistema"
    /\ UNCHANGED <<arquivo_dados, arquivo_sistema, df, df_limpo, pos, motivos_invalidos,
                   resposta_cep, data_cep, clientes_validos, clientes_invalidos,
                   df_sistema, json_saida, relatorio, excecao, cpf_entrada,
                   cpf_saida>>

\* pd.read_excel('sistema.xlsx'): the file is there, or FileNotFoundError
LerSistema ==
    /\ pc = "ler_sistema"
    /\ \/ \E conteudo \in Sistemas :
              /\ arquivo_sistema' = conteudo
              /\ df_sistema' = conteudo
              /\ pc' = IF df_clientes_validos # <<>> THEN "comparar"
                       ELSE "sem_validos"
       \/ /\ UNCHANGED <<arquivo_sistema, df_sistema>>
          /\ pc' = "abortado_sistema"
    /\ UNCHANGED <<arquivo_dados, df, df_limpo, pos, motivos_invalidos,
                   resposta_cep, data_cep, clientes_validos, clientes_invalidos,
                   df_clientes_validos, invalidos_xlsx, json_saida, relatorio,
                   excecao, cpf_entrada, cpf_saida>>

NormalizarCpf(x) == ZFill(SoDigitos(x), 11)

EstaEm(x, coluna) == \E j \in 1..Len(coluna) : coluna[j] = x

Tipo_sem_normalizar(cpf, coluna) == IF EstaEm(cpf, coluna) THEN "A" ELSE "I"

\* TIPO of one valid row against the cpf column of the reference
Tipo(cpf, coluna) ==
    IF EstaEm(NormalizarCpf(cpf),
              [j \in 1..Len(coluna) |-> NormalizarCpf(coluna[j])])
    THEN "A" ELSE "I"

Comparar ==
    /\ pc = "comparar"
    /\ df_sistema' = [j \in 1..Len(df_sistema) |-> NormalizarCpf(df_sistema[j])]
    /\ df_clientes_validos' =
           [k \in 1..Len(df_clientes_validos) |->
               [indice |-> df_clientes_validos[k].indice,
                row |-> [df_clientes_validos[k].row EXCEPT
                            !.CPF = NormalizarCpf(df_clientes_validos[k].row.CPF)],
                TIPO |-> Tipo(df_clientes_validos[k].row.CPF, df_sistema)]]
    /\ pc' = "exportar"
    /\ UNCHANGED <<arquivo_dados, arquivo_sistema, df, df_limpo, pos, motivos_invalidos,
                   resposta_cep, data_cep, clientes_validos, clientes_invalidos,
                   invalidos_xlsx, json_saida, relatorio, excecao, cpf_entrada,
                   cpf_saida>>

\* s[:n] and s[n:]
Prefixo(s, n) == SubSeq(s, 1, IF n < Len(s) THEN n ELSE Len(s))

Resto(s, n) == SubSeq(s, (IF n < Len(s) THEN n ELSE Len(s)) + 1, Len(s))

\* str(n) of a natural number
RECURSIVE Str(_)
Str(n) == IF n < 10 THEN <<DigitosSeq[n + 1]>>
          ELSE Str(n \div 10) \o <<DigitosSeq[(n % 10) + 1]>>

\* the entry converter_para_json builds for one row
cliente(m) ==
    [id |-> m.row.Faculdade \o <<"-">> \o m.row.CPF,
     agrupador |-> m.row.Faculdade,
     tipoPessoa |-> "FISICA",
     nome |-> m.row.NOME,
     cpf |-> m.row.CPF,
     dataNascimento |-> m.row.Nascimento,
     tipo |-> m.TIPO,
     enderecos |-> <<[cep |-> m.row.CEP, logradouro |-> m.row.Endereco,
                      bairro |-> m.row.Bairro, cidade |-> m.row.Cidade,
                      numero |-> Str(m.row.Numero), uf |-> m.row.Estado]>>,
     emails |-> <<[email |-> m.row.Email]>>,
     telefones |-> <<[tipo |-> "CELULAR", ddd |-> Prefixo(m.row.Telefone, 2),
                      telefone |-> Resto(m.row.Telefone, 2)]>>,
     informacoesAdicionais |->
         <<[campo |-> "cpf_aluno", linha |-> m.indice + 2, coluna |-> 2,
            valor |-> m.row.CPF],
           [campo |-> "registro_aluno", linha |-> m.indice + 2, coluna |-> 12,
            valor |-> Str(m.row.RA)],
           [campo |-> "nome_aluno", linha |-> m.indice + 2, coluna |-> 1,
            valor |-> m.row.NOME]>>]

converter_para_json(dfv) == [k \in 1..Len(dfv) |-> cliente(dfv[k])]

Exportar ==
    /\ pc = "exportar"
    /\ json_saida' = <<converter_para_json(df_clientes_validos)>>
    /\ pc' = "relatorio"
    /\ UNCHANGED <<arquivo_dados, arquivo_sistema, df, df_limpo, pos, motivos_invalidos,
                   resposta_cep, data_cep, clientes_validos, clientes_invalidos,
                   df_clientes_validos, df_sistema, invalidos_xlsx, relatorio,
                   excecao, cpf_entrada, cpf_saida>>

\* the else branch: nothing to compare or export
SemValidos ==
    /\ pc = "sem_validos"
    /\ pc' = "relatorio"
    /\ UNCHANGED <<arquivo_dados, arquivo_sistema, df, df_limpo, pos, motivos_invalidos,
                   resposta_cep, data_cep, clientes_validos, clientes_invalidos,
                   df_clientes_validos, df_sistema, invalidos_xlsx, json_saida,
                   relatorio, excecao, cpf_entrada, cpf_saida>>

Relatorio ==
    /\ pc = "relatorio"
    /\ relatorio' =
           <<[total |-> Len(df),
              validos |-> Len(df_clientes_validos),
              invalidos |-> Len(clientes_invalidos),
              desconsiderados |->
                  Len(df) - Len(df_clientes_validos) - Len(clientes_invalidos)]>>
    /\ pc' = "fim"
    /\ UNCHANGED <<arquivo_dados, arquivo_sistema, df, df_limpo, pos, motivos_invalidos,
                   resposta_cep, data_cep, clientes_validos, clientes_invalidos,
                   df_clientes_validos, df_sistema, invalidos_xlsx, json_saida,
                   excecao, cpf_entrada, cpf_saida>>

Next ==
    \/ LerDados
    \/ Padronizar
    \/ ValidarRegistro
    \/ GravarInvalidos
    \/ LerSistema
    \/ Comparar
    \/ Exportar
    \/ SemValidos
    \/ Relatorio

Spec == Init /\ [][Next]_vars

(***************************************************************************)
(* validar_cpf on its own: every candidate string is fed to it, and a      *)
(* check digit of the string may be replaced before it is fed again.       *)
(***************************************************************************)
\* 11-digit strings: a repeated digit u, the first CpfVarPos positions and
\* the two check digits free
CpfsDeTeste ==
    {[k \in 1..11 |->
        IF k <= CpfVarPos THEN DigitosSeq[v[k] + 1]
        ELSE IF k >= 10 THEN DigitosSeq[c[k - 9] + 1]
        ELSE DigitosSeq[u + 1]] :
        v \in [1..CpfVarPos -> 0..9], c \in [1..2 -> 0..9], u \in 0..9}
        \cup {SoDigitos(CpfFormatado)}

InitCpf ==
    /\ pc = "cpf"
    /\ arquivo_dados = <<>>
    /\ df = <<>>
    /\ df_limpo = <<>>
    /\ pos = 0
    /\ motivos_invalidos = <<>>
    /\ resposta_cep = SemResposta
    /\ data_cep = <<FALSE, SemDados>>
    /\ clientes_validos = <<>>
    /\ clientes_invalidos = <<>>
    /\ df_clientes_validos = <<>>
    /\ arquivo_sistema = <<>>
    /\ df_sistema = <<>>
    /\ invalidos_xlsx = <<>>
    /\ json_saida = <<>>
    /\ relatorio = <<>>
    /\ excecao = ""
    /\ cpf_entrada \in CpfsDeTeste
    /\ cpf_saida = <<>>

ChamarValidarCpf ==
    /\ pc = "cpf"
    /\ cpf_saida = <<>>
    /\ cpf_saida' = <<validar_cpf(cpf_entrada)>>
    /\ UNCHANGED <<pc, arquivo_dados, arquivo_sistema, df, df_limpo, pos,
                   motivos_invalidos, resposta_cep, data_cep, clientes_validos,
                   clientes_invalidos, df_clientes_validos, df_sistema,
                   invalidos_xlsx, json_saida, relatorio, excecao, cpf_entrada>>

TrocarDigitoVerificador ==
    /\ pc = "cpf"
    /\ cpf_saida # <<>>
    /\ \E k \in 10..11, d \in Digitos :
          /\ d # cpf_entrada[k]
          /\ cpf_entrada' = [cpf_entrada EXCEPT ![k] = d]
    /\ cpf_saida' = <<>>
    /\ UNCHANGED <<pc, arquivo_dados, arquivo_sistema, df, df_limpo, pos,
                   motivos_invalidos, resposta_cep, data_cep, clientes_validos,
                   clientes_invalidos, df_clientes_validos, df_sistema,
                   invalidos_xlsx, json_saida, relatorio, excecao>>

NextCpf == ChamarValidarCpf \/ TrocarDigitoVerificador

SpecCpf == InitCpf /\ [][NextCpf]_vars

(***************************************************************************)
(* Properties                                                              *)
(***************************************************************************)
ElementosDe(q) == {q[k] : k \in 1..Len(q)}

DepoisDoLaco ==
    pc \in {"ler_sistema", "abortado_sistema", "comparar", "sem_validos",
            "exportar", "relatorio", "fim"}

EmValidos(m) == \E j \in 1..Len(clientes_validos) : clientes_validos[j] = m

EmInvalidos(m) ==
    \E j \in 1..Len(clientes_invalidos) :
        /\ clientes_invalidos[j].indice = m.indice
        /\ clientes_invalidos[j].row = m.row

\* C1: once the validation loop is over, every row of the de-duplicated
\* normalised batch is in exactly one of clientes_validos and
\* clientes_invalidos; the row validated last went to clientes_validos iff
\* its reason list is empty, and otherwise to clientes_invalidos with that
\* list as a non-empty Motivo; a written JSON document has one entry per
\* valid row, in order, and no entry for an invalid row.
C1_Particao ==
    /\ DepoisDoLaco => pos = Len(df_limpo)
    /\ pc = "validar" \/ DepoisDoLaco =>
        /\ \A k \in 1..Len(df_limpo) :
              /\ k <= pos => (EmValidos(df_limpo[k]) # EmInvalidos(df_limpo[k]))
              /\ k > pos => ~EmValidos(df_limpo[k]) /\ ~EmInvalidos(df_limpo[k])
        /\ Len(clientes_validos) + Len(clientes_invalidos) = pos
        /\ \A j \in 1..Len(clientes_invalidos) : clientes_invalidos[j].Motivo # <<>>
        /\ pos > 0 /\ motivos_invalidos = <<>> =>
              /\ clientes_validos # <<>>
              /\ clientes_validos[Len(clientes_validos)] = df_limpo[pos]
        /\ pos > 0 /\ motivos_invalidos # <<>> =>
              /\ clientes_invalidos # <<>>
              /\ clientes_invalidos[Len(clientes_invalidos)] =
                     [indice |-> df_limpo[pos].indice, row |-> df_limpo[pos].row,
                      Motivo |-> Join(motivos_invalidos)]
    /\ invalidos_xlsx # <<>> => invalidos_xlsx[1] = clientes_invalidos
    /\ json_saida # <<>> =>
        /\ Len(json_saida[1]) = Len(clientes_validos)
        /\ \A k \in 1..Len(clientes_validos) :
              /\ json_saida[1][k].informacoesAdicionais[1].linha
                     = clientes_validos[k].indice + 2
              /\ json_saida[1][k].nome = clientes_validos[k].row.NOME
              /\ json_saida[1][k].cpf = clientes_validos[k].row.CPF
        /\ \A k \in 1..Len(json_saida[1]), j \in 1..Len(clientes_invalidos) :
              json_saida[1][k].informacoesAdicionais[1].linha
                  # clientes_invalidos[j].indice + 2

C1_Witness ==
    /\ pc = "fim"
    /\ json_saida # <<>>
    /\ clientes_validos # <<>>
    /\ clientes_invalidos # <<>>

\* the claim's own reading of each rule, on a normalised row
RegraCpfFalha(row) == ~validar_cpf(row.CPF)
RegraNomeFalha(row) == ~validar_nome_completo(row.NOME)
RegraDataFalha(row) == validar_data_nascimento(row.Nascimento) # "True"
RegraEmailFalha(row) == ~validar_email(row.Email)
RegraTelefoneFalha(row) == ~validar_telefone(row.Telefone)

ConsultaFalhou(r) == ~r.transporte_ok \/ r.status # 200 \/ r.erro

Campo(r, chave) == IF chave \in r.corpo.presentes THEN r.corpo.valor[chave] ELSE <<>>

EnderecoConfere(row, r) ==
    /\ Contem(row.Endereco, Upper(Campo(r, "logradouro")))
    /\ Upper(Campo(r, "bairro")) = row.Bairro
    /\ Upper(Campo(r, "localidade")) = row.Cidade
    /\ Upper(Campo(r, "uf")) = row.Estado

\* the sub-sequence of the fixed reason order whose rules failed
MotivosEsperados(row, r) ==
    Se(RegraCpfFalha(row), MotivoCpf)
        \o Se(RegraNomeFalha(row), MotivoNome)
        \o Se(RegraDataFalha(row), MotivoData)
        \o Se(RegraEmailFalha(row), MotivoEmail)
        \o Se(RegraTelefoneFalha(row), MotivoTelefone)
        \o Se(ConsultaFalhou(r), MotivoCep)
        \o Se(~ConsultaFalhou(r) /\ ~EnderecoConfere(row, r), MotivoEndereco)

\* C2: for every row the loop takes up, all rules are evaluated and the
\* reason list is exactly the sub-sequence, in the fixed order, of the
\* reasons whose rules failed (for some answer of the lookup service).
C2_TodasAsRegras ==
    /\ pos > 0 /\ excecao = "" /\ pc # "cpf" =>
          motivos_invalidos = MotivosEsperados(df_limpo[pos].row, resposta_cep)
    /\ excecao # "" =>
          \E r \in Respostas :
              motivos_invalidos = MotivosEsperados(df_limpo[pos + 1].row, r)

\* C3: a step of the loop whose lookup fails stores (False, {}), gives the
\* row 'CEP invalido' and no address reason, appends it to
\* clientes_invalidos and raises nothing; and every step of the loop leaves
\* the rows placed before untouched and gives its row the reasons that row
\* and its own lookup answer determine, whatever happened to other rows.
C3_FalhaDeConsultaIsolada ==
    [][(pc = "validar" /\ pos' = pos + 1) =>
          LET m == df_limpo[pos + 1] IN
          /\ ConsultaFalhou(resposta_cep') =>
                /\ data_cep' = <<FALSE, SemDados>>
                /\ MotivoCep \in ElementosDe(motivos_invalidos')
                /\ MotivoEndereco \notin ElementosDe(motivos_invalidos')
                /\ clientes_invalidos' =
                       Append(clientes_invalidos,
                              [indice |-> m.indice, row |-> m.row,
                               Motivo |-> Join(motivos_invalidos')])
                /\ clientes_validos' = clientes_validos
                /\ excecao' = ""
                /\ pc' = "validar"
          /\ motivos_invalidos' = MotivosEsperados(m.row, resposta_cep')
          /\ SubSeq(clientes_validos', 1, Len(clientes_validos)) = clientes_validos
          /\ SubSeq(clientes_invalidos', 1, Len(clientes_invalidos))
                 = clientes_invalidos
          /\ Len(clientes_validos') + Len(clientes_invalidos') = pos + 1]_vars

C3_Witness ==
    /\ pos = 2
    /\ excecao = ""
    /\ ConsultaFalhou(resposta_cep)
    /\ motivos_invalidos = <<MotivoCep>>
    /\ Len(clientes_validos) = 1
    /\ Len(clientes_invalidos) = 1

\* C4 as claimed: a run ended by a missing source file has written neither
\* clientes_invalidos.xlsx nor clientes_para_subir.json.
C4_NadaEscrito ==
    pc \in {"abortado_dados", "abortado_sistema"} =>
        invalidos_xlsx = <<>> /\ json_saida = <<>>

\* C4 amended: a run ended by a missing dados.xlsx has written nothing; a
\* run ended by a missing sistema.xlsx has written clientes_invalidos.xlsx
\* (with the invalid rows) and has not written clientes_para_subir.json;
\* neither prints the final report.
C4_ArquivoAusente ==
    /\ pc = "abortado_dados" =>
          invalidos_xlsx = <<>> /\ json_saida = <<>> /\ relatorio = <<>>
    /\ pc = "abortado_sistema" =>
          /\ invalidos_xlsx = <<clientes_invalidos>>
          /\ json_saida = <<>>
          /\ relatorio = <<>>

C4_Witness ==
    /\ pc = "abortado_sistema"
    /\ clientes_invalidos # <<>>
    /\ clientes_validos # <<>>

\* C5: a row whose date of birth cannot be parsed is a validation failure:
\* no exception leaves the run, and once the loop has taken the row up it
\* sits in clientes_invalidos with the combined date reason.
C5_DataIlegivel ==
    /\ excecao = ""
    /\ \A k \in 1..pos :
          df_limpo[k].row.Nascimento = NaN =>
              \E j \in 1..Len(clientes_invalidos) :
                  /\ clientes_invalidos[j].indice = df_limpo[k].indice
                  /\ MotivoData \in ElementosDe(clientes_invalidos[j].Motivo)

\* digit at 0-based position k of the string under test
D(k) == DigitoVal(cpf_entrada[k + 1])

PrimeiroVerificador ==
    (((D(0) * 10 + D(1) * 9 + D(2) * 8 + D(3) * 7 + D(4) * 6 + D(5) * 5
        + D(6) * 4 + D(7) * 3 + D(8) * 2) * 10) % 11) % 10

SegundoVerificador ==
    (((D(0) * 11 + D(1) * 10 + D(2) * 9 + D(3) * 8 + D(4) * 7 + D(5) * 6
        + D(6) * 5 + D(7) * 4 + D(8) * 3 + D(9) * 2) * 10) % 11) % 10

\* C6: on an 11-digit string validar_cpf returns True exactly when the
\* digits are not all the same and both check digits equal the weighted
\* sums' digits; an all-identical string is rejected, and replacing either
\* check digit of an accepted string by another digit gets it rejected.
C6_DigitosVerificadores ==
    cpf_saida # <<>> =>
        /\ cpf_saida[1] =
              (/\ Cardinality(ElementosDe(cpf_entrada)) > 1
               /\ D(9) = PrimeiroVerificador
               /\ D(10) = SegundoVerificador)
        /\ Cardinality(ElementosDe(cpf_entrada)) = 1 => cpf_saida[1] = FALSE
        /\ cpf_saida[1] =>
              \A k \in 10..11, d \in Digitos :
                  d # cpf_entrada[k] =>
                      ~validar_cpf([cpf_entrada EXCEPT ![k] = d])

C6_Witness ==
    /\ cpf_saida = <<TRUE>>
    /\ cpf_entrada = SoDigitos(CpfFormatado)

\* C7: once compared, a valid row has TIPO 'A' iff its 11-digit CPF equals
\* the digits-only, zero-padded form of some entry of the reference file,
\* and 'I' otherwise; with an empty reference every valid row has 'I'; the
\* JSON entry carries the same tag.
C7_Classificacao ==
    /\ pc \in {"exportar", "relatorio", "fim"} =>
          \A k \in 1..Len(df_clientes_validos) :
              LET m == df_clientes_validos[k] IN
              /\ Len(m.row.CPF) = 11
              /\ m.TIPO \in {"A", "I"}
              /\ m.TIPO = "A" <=>
                    \E j \in 1..Len(arquivo_sistema) :
                        ZFill(SoDigitos(arquivo_sistema[j]), 11) = m.row.CPF
              /\ arquivo_sistema = <<>> => m.TIPO = "I"
    /\ json_saida # <<>> =>
          \A k \in 1..Len(json_saida[1]) :
              json_saida[1][k].tipo = df_clientes_validos[k].TIPO

C7_Witness ==
    /\ pc = "fim"
    /\ json_saida # <<>>
    /\ \E k \in 1..Len(json_saida[1]) : json_saida[1][k].tipo = "A"
    /\ \E k \in 1..Len(json_saida[1]) : json_saida[1][k].tipo = "I"

\* C8: when the lookup succeeds with data, the row validated gets the
\* address reason iff not all four hold: the upper-cased canonical street
\* is a substring of the row's street, and the upper-cased canonical
\* bairro, localidade and uf equal the row's neighbourhood, city and state;
\* a key the answer lacks counts as the empty string.
C8_EnderecoNaoConfere ==
    (pos > 0 /\ excecao = "" /\ ~ConsultaFalhou(resposta_cep)) =>
        LET row == df_limpo[pos].row IN
        /\ MotivoCep \notin ElementosDe(motivos_invalidos)
        /\ MotivoEndereco \in ElementosDe(motivos_invalidos) <=>
              ~(/\ Contem(row.Endereco, Upper(Campo(resposta_cep, "logradouro")))
                /\ Upper(Campo(resposta_cep, "bairro")) = row.Bairro
                /\ Upper(Campo(resposta_cep, "localidade")) = row.Cidade
                /\ Upper(Campo(resposta_cep, "uf")) = row.Estado)

C8_Witness ==
    /\ pos > 0
    /\ excecao = ""
    /\ ~ConsultaFalhou(resposta_cep)
    /\ resposta_cep.corpo.presentes = {"localidade", "uf"}
    /\ df_limpo[pos].row.Bairro = <<>>
    /\ Len(df_limpo[pos].row.Endereco) > Len(Canonico.logradouro)
    /\ motivos_invalidos = <<>>

FalhaSemConsulta(row) ==
    \/ RegraCpfFalha(row)
    \/ RegraNomeFalha(row)
    \/ RegraDataFalha(row)
    \/ RegraEmailFalha(row)
    \/ RegraTelefoneFalha(row)

\* C9: when both files are there and every row of the batch is invalid,
\* nothing is raised, the invalid output is written once the loop is over,
\* comparison and JSON export are skipped, and the final report, reached
\* from every such state, counts zero valid rows.
C9_SemValidos ==
    (/\ pc \notin {"cpf", "ler_dados", "abortado_dados", "abortado_sistema"}
     /\ \/ \A k \in 1..Len(df) : FalhaSemConsulta(PadronizarLinha(df[k]))
        \/ DepoisDoLaco /\ clientes_validos = <<>>) =>
        /\ excecao = ""
        /\ pc \notin {"comparar", "exportar"}
        /\ json_saida = <<>>
        /\ DepoisDoLaco => invalidos_xlsx = <<clientes_invalidos>>
        /\ pc = "fim" =>
              /\ relatorio # <<>>
              /\ relatorio[1].validos = 0
              /\ relatorio[1].total = Len(df)
              /\ relatorio[1].invalidos = Len(clientes_invalidos)

\* C10: every entry of the written document splits a phone that passed
\* validar_telefone: ddd is its first 2 digits, telefone the remaining 8 or
\* 9, and ddd followed by telefone is the row's normalised phone, which is
\* the digits of the phone in the file.
C10_DddTelefone ==
    json_saida # <<>> =>
        \A k \in 1..Len(json_saida[1]) :
            LET t == json_saida[1][k].telefones[1]
                tel == clientes_validos[k].row.Telefone
                bruto == arquivo_dados[clientes_validos[k].indice + 1].Telefone
            IN  /\ tel = SelectSeq(bruto, EhDigito)
                /\ Len(tel) \in {10, 11}
                /\ t.ddd = <<tel[1], tel[2]>>
                /\ Len(t.telefone) \in {8, 9}
                /\ \A j \in 1..Len(t.telefone) : t.telefone[j] \in Digitos
                /\ t.ddd \o t.telefone = tel

C10_Witness ==
    /\ json_saida # <<>>
    /\ \E k \in 1..Len(json_saida[1]) :
          /\ arquivo_dados[clientes_validos[k].indice + 1].Telefone = TelefoneCelular
          /\ json_saida[1][k].telefones[1].ddd = <<"1", "1">>
          /\ json_saida[1][k].telefones[1].telefone =
                 <<"9", "8", "8", "8", "8", "7", "7", "7", "7">>

====
